---- MODULE Spec2Model ----
(***************************************************************************)
(* Pension pot calculator: PensionHelpers (projection and sustainability   *)
(* formulas), PensionCalc.run (orchestration) and the Streamlit front end  *)
(* that constructs the calculator.                                          *)
(*                                                                          *)
(* Python floats are modelled as exact rationals [n, d] in lowest terms.   *)
(* round(x, 2) becomes an integer number of pence (ties to even).  The one *)
(* place where an exact value is out of reach of TLC's integers, the power *)
(* (1 + r) ** (-n) of the annuity formula, is computed in fixed point.     *)
(***************************************************************************)
EXTENDS Integers, Sequences, FiniteSets, TLC

VARIABLES
    pc,               \* position of the request being served
    this_year,        \* datetime.datetime.now().year, read from the host clock
    ui,               \* widget values of the Streamlit page, or None
    ui_self,          \* fields of the PensionUserInterface object
    calc,             \* fields of the PensionCalc object, or None
    years,            \* build_projection: local years
    annual_contrib,   \* build_projection: local annual_contrib
    y,                \* build_projection: loop variable
    start_balance,    \* build_projection: running (unrounded) balance
    rows,             \* build_projection: rows appended so far
    proj,             \* PensionCalc.run: the returned DataFrame, or None
    projected_pot,    \* PensionCalc.run: local, or None
    income_call,      \* arguments sustainable_income_with_lifespan received
    projected_income, \* PensionCalc.run: local, or None
    years_supported,  \* PensionCalc.run: local, or None
    raised,           \* the exception that ended the request, "" if none
    output,           \* what the request returned to its caller, or None
    dq,               \* a direct call of years_sustainable_fixed_income
    dres              \* its result, or None

vars == <<pc, this_year, ui, ui_self, calc, years, annual_contrib, y,
          start_balance, rows, proj, projected_pot, income_call,
          projected_income, years_supported, raised, output, dq, dres>>

projVars == <<years, annual_contrib, y, start_balance, rows>>
runVars == <<proj, projected_pot, income_call, projected_income,
             years_supported, output>>

-----------------------------------------------------------------------------
(* Bounds of the model *)

\* longest projection horizon (retire_age - current_age) that is explored
MaxYears == 2

-----------------------------------------------------------------------------
(* Precision *)

\* (1 + r) ** (-n) is evaluated to three decimal places: with a power of ten
\* every denominator of the model divides 100 * 400 * PowScale, and three
\* places are the most for which an income of some 10^4 pounds stays within
\* TLC's 32-bit integers
PowScale == 10 * 10 * 10

-----------------------------------------------------------------------------
(* Optional values: None and Some(v) *)

None == << >>
Some(v) == <<v>>
IsNone(o) == o = << >>
Val(o) == o[1]

-----------------------------------------------------------------------------
(* Exact rational arithmetic standing for Python float arithmetic *)

Abs(i) == IF i < 0 THEN -i ELSE i

RECURSIVE GCD(_, _)
GCD(a, b) == IF b = 0 THEN a ELSE GCD(b, a % b)

\* n / d in lowest terms, d > 0
Rat(n, d) ==
    LET s == IF d < 0 THEN -1 ELSE 1
        g == GCD(Abs(n), Abs(d))
    IN  [n |-> (s * n) \div g, d |-> (s * d) \div g]

Int2Rat(i) == [n |-> i, d |-> 1]
Zero == Int2Rat(0)
One == Int2Rat(1)

\* sums and comparisons go through the least common denominator
RAdd(a, b) ==
    LET g == GCD(a.d, b.d)
    IN  Rat(a.n * (b.d \div g) + b.n * (a.d \div g), (a.d \div g) * b.d)
RNeg(a) == [n |-> -a.n, d |-> a.d]
RSub(a, b) == RAdd(a, RNeg(b))
RMul(a, b) ==
    LET g1 == GCD(Abs(a.n), b.d)
        g2 == GCD(Abs(b.n), a.d)
    IN  Rat((a.n \div g1) * (b.n \div g2), (a.d \div g2) * (b.d \div g1))
RDiv(a, b) == RMul(a, Rat(b.d, b.n))
RSign(a) == IF a.n > 0 THEN 1 ELSE IF a.n < 0 THEN -1 ELSE 0
RLe(a, b) == RSign(RSub(a, b)) <= 0
RLt(a, b) == RSign(RSub(a, b)) < 0

\* round(x, 2): the nearest multiple of 0.01, ties to the even one, as a
\* whole number of pence
Round2(x) ==
    LET whole == x.n \div x.d
        s == 100 * (x.n % x.d)
        q == 100 * whole + (s \div x.d)
        rem == s % x.d
    IN  IF 2 * rem < x.d THEN q
        ELSE IF 2 * rem > x.d THEN q + 1
        ELSE IF q % 2 = 0 THEN q ELSE q + 1

\* the float a rounded value is: pence / 100
Pence(p) == Rat(p, 100)

-----------------------------------------------------------------------------
(* Program constants *)

\* app.py: DEFAULT_CURRENT_AGE, DEFAULT_RETIRE_AGE
DEFAULT_CURRENT_AGE == 42
DEFAULT_RETIRE_AGE == 67

\* PensionCalc.__init__ defaults: withdrawal_rate = 0.04, years_in_retirement = 40
DefaultWithdrawalRate == Rat(4, 100)
DefaultYearsInRetirement == 40

\* PensionHelpers.sustainable_income default: real_return = 0.035
DefaultRealReturn == Rat(35, 1000)

-----------------------------------------------------------------------------
(* PensionHelpers.build_projection, piece by piece *)

\* mutant: the employer's contribution is left out
AnnualContrib_PersonalOnly(monthly_personal, monthly_employer) ==
    RMul(monthly_personal, Int2Rat(12))

\* annual_contrib = (monthly_personal + monthly_employer) * 12.0
AnnualContrib(monthly_personal, monthly_employer) ==
    RMul(RAdd(monthly_personal, monthly_employer), Int2Rat(12))

\* mutant: range(years), the retirement year is left out
RangeLen_Exclusive(yrs) == IF yrs > 0 THEN yrs ELSE 0

\* len(range(years + 1)): the number of iterations of the loop
RangeLen(yrs) == IF yrs + 1 > 0 THEN yrs + 1 ELSE 0

\* mutant: growth is left out of end_balance
ProjectionStep_GrowthDropped(yy, sb, ac, r) ==
    IF yy = 0
    THEN [contrib |-> Zero, growth |-> Zero, end_balance |-> sb]
    ELSE [contrib |-> ac,
          growth |-> RMul(RAdd(sb, RDiv(ac, Int2Rat(2))), r),
          end_balance |-> RAdd(sb, ac)]

\* mutant: growth is taken off the balance instead of added to it
ProjectionStep_GrowthSubtracted(yy, sb, ac, r) ==
    IF yy = 0
    THEN [contrib |-> Zero, growth |-> Zero, end_balance |-> sb]
    ELSE LET growth == RMul(RAdd(sb, RDiv(ac, Int2Rat(2))), r)
         IN  [contrib |-> ac,
              growth |-> growth,
              end_balance |-> RSub(RAdd(sb, ac), growth)]

\* the body of the loop up to end_balance: contrib, growth, end_balance
ProjectionStep(yy, sb, ac, r) ==
    IF yy = 0
    THEN [contrib |-> Zero, growth |-> Zero, end_balance |-> sb]
    ELSE LET growth == RMul(RAdd(sb, RDiv(ac, Int2Rat(2))), r)
         IN  [contrib |-> ac,
              growth |-> growth,
              end_balance |-> RAdd(RAdd(sb, ac), growth)]

\* the dict appended to rows; money columns are round(., 2), held in pence
EmitRow(yy, age, year, sb, step) ==
    [Year_no |-> yy,
     Calendar_Year |-> year,
     Age |-> age,
     Start_Balance |-> Round2(sb),
     Contributions |-> Round2(step.contrib),
     Growth |-> Round2(step.growth),
     End_Balance |-> Round2(step.end_balance)]

\* mutant: the next year starts from the balance before growth
CarriedBalance_BeforeGrowth(step) == RSub(step.end_balance, step.growth)

\* start_balance = end_balance: the unrounded value carried to the next year
CarriedBalance(step) == step.end_balance

-----------------------------------------------------------------------------
(* PensionHelpers.sustainable_income_with_lifespan and sustainable_income *)

\* (1 + r) ** (-n) for r > 0, n >= 0, in units of 1 / (PowScale * PowScale):
\* n divisions by 1 + r = (r.d + r.n) / r.d, each rounded down
RECURSIVE PowNegFine(_, _)
PowNegFine(r, n) ==
    IF n = 0 THEN PowScale * PowScale
    ELSE (PowNegFine(r, n - 1) * r.d) \div (r.d + r.n)

\* the same power rounded to the nearest multiple of 1 / PowScale
PowNeg(r, n) == Rat((PowNegFine(r, n) + PowScale \div 2) \div PowScale, PowScale)

\* pot * r / (1 - (1 + r) ** (-n)); the quotient r / (1 - ...) is formed first
\* to keep the intermediate values small, which exact arithmetic allows
SustainableIncomeWithLifespan(pot, years_in_retirement, real_return, state_pension) ==
    LET r == real_return
    IN  IF years_in_retirement <= 0
        THEN RAdd(pot, state_pension)
        ELSE LET income_from_pot ==
                     IF RLe(r, Zero)
                     THEN RDiv(pot, Int2Rat(years_in_retirement))
                     ELSE RMul(pot,
                               RDiv(r, RSub(One, PowNeg(r, years_in_retirement))))
             IN  RAdd(income_from_pot, state_pension)

\* sustainable_income: withdrawal_rate and years_in_retirement are None or
\* Some(v).  The result names the exception raised ("" if none), the value
\* returned and the arguments handed to sustainable_income_with_lifespan.
SustainableIncome(pot, withdrawal_rate, state_pension, years_in_retirement, real_return) ==
    IF ~IsNone(years_in_retirement)
    THEN [raised |-> "",
          value |-> Some(SustainableIncomeWithLifespan(
                             pot, Val(years_in_retirement), real_return, state_pension)),
          lifespan |-> Some([pot |-> pot,
                             years_in_retirement |-> Val(years_in_retirement),
                             real_return |-> real_return,
                             state_pension |-> state_pension])]
    ELSE IF IsNone(withdrawal_rate)
    THEN \* pot * None
         [raised |-> "TypeError", value |-> None, lifespan |-> None]
    ELSE [raised |-> "",
          value |-> Some(RAdd(RMul(pot, Val(withdrawal_rate)), state_pension)),
          lifespan |-> None]

-----------------------------------------------------------------------------
(* PensionHelpers.years_sustainable_fixed_income *)

\* the sign of math.log(z) for z > 0
LogSign(z) == RSign(RSub(z, One))

\* mutant: the State Pension must exceed the target, not just meet it
StatePensionCovers_Strict(annual_from_pot) == RLt(annual_from_pot, Zero)

\* if annual_from_pot <= 0
StatePensionCovers(annual_from_pot) == RLe(annual_from_pot, Zero)

\* mutant: growth must exceed the withdrawal, not just meet it
GrowthCovers_Strict(pot, r, annual_from_pot) == RLt(annual_from_pot, RMul(pot, r))

\* if pot * r >= annual_from_pot
GrowthCovers(pot, r, annual_from_pot) == RLe(annual_from_pot, RMul(pot, r))

\* The result is math.inf, a finite float or a ValueError of math.log.  A
\* finite result is carried by its sign, which is all that its callers and
\* the properties below read; branch names the return statement taken.
YearsSustainableFixedIncome(pot, desired_income, state_pension, real_return) ==
    LET annual_from_pot == RSub(desired_income, state_pension)
        r == real_return
        Inf(b) == [kind |-> "inf", sign |-> 1, branch |-> b]
        Finite(s, b) == [kind |-> "finite", sign |-> s, branch |-> b]
    IN  IF StatePensionCovers(annual_from_pot) THEN Inf("state_pension_covers")
        ELSE IF RLe(pot, Zero) THEN Finite(0, "no_pot")
        ELSE IF r = Zero
        THEN Finite(RSign(RDiv(pot, annual_from_pot)), "straight_line")
        ELSE IF GrowthCovers(pot, r, annual_from_pot) THEN Inf("growth_covers")
        ELSE LET x == RSub(One, RDiv(RMul(r, pot), annual_from_pot))
             IN  IF RLe(x, Zero) THEN Finite(0, "x_not_positive")
                 ELSE IF RLe(RAdd(One, r), Zero)
                 THEN [kind |-> "ValueError", sign |-> 0, branch |-> "log"]
                 ELSE LET s == (-LogSign(x)) * LogSign(RAdd(One, r))
                      IN  \* max(0.0, years)
                          Finite(IF s > 0 THEN s ELSE 0, "annuity")

-----------------------------------------------------------------------------
(* PensionCalc.__init__ *)

PensionCalcInit(current_age, retire_age, current_pot, p_monthly_contribution, e_monthly_contribution, real_return, desired_income, state_pension, withdrawal_rate, years_in_retirement) ==
    [current_age |-> current_age,
     retire_age |-> retire_age,
     current_balance |-> current_pot,
     monthly_personal |-> p_monthly_contribution,
     monthly_employer |-> e_monthly_contribution,
     annual_real_return |-> real_return,
     desired_income |-> desired_income,
     state_pension |-> state_pension,
     withdrawal_rate |-> withdrawal_rate,
     years_in_retirement |-> years_in_retirement]

-----------------------------------------------------------------------------
(* Inputs *)

\* the host clock's year
ClockYears == {2025, 2026}

\* arguments of a PensionCalc built by a caller other than the page
DirectAges == {30}
DirectRetireAges == 28 .. (30 + MaxYears)
DirectBalances == {Zero, Rat(1, 250), Rat(81, 8), Int2Rat(100)}
DirectPersonal == {Zero, Rat(1, 3000), Int2Rat(10)}
DirectEmployer == {Zero, Int2Rat(5)}
DirectReturns == {Rat(-1, 20), Zero, Rat(1, 20)}
DirectDesired == {Int2Rat(10000), Int2Rat(20000)}
DirectStatePension == {Int2Rat(11500)}
DirectWithdrawalRates == {None, Some(DefaultWithdrawalRate)}
DirectYearsInRetirement == {None, Some(0), Some(25)}

DirectCalcs ==
    { PensionCalcInit(ca, ra, cb, mp, me, r, di, sp, wr, yir) :
        ca \in DirectAges, ra \in DirectRetireAges, cb \in DirectBalances,
        mp \in DirectPersonal, me \in DirectEmployer, r \in DirectReturns,
        di \in DirectDesired, sp \in DirectStatePension,
        wr \in DirectWithdrawalRates, yir \in DirectYearsInRetirement }

\* widget values of the page (st.number_input, st.toggle, st.slider)
UIContributions ==
    [contribution_toggle : {TRUE}, annual_salary : {18000},
     p_monthly_percentage : {1}, e_monthly_percentage : {1}]
    \cup
    [contribution_toggle : {FALSE}, p_monthly_contribution : {0, 20},
     e_monthly_contribution : {0}]

UIWidgets ==
    [current_age : {66, 67},
     retirement_age : 67 .. (66 + MaxYears),
     contributions : UIContributions,
     current_pot : {0, 500},
     desired_income : {11500, 20000},
     life_expectancy : {81, 107},
     state_pension : {0, 11500},
     real_return_pct : {Zero, Rat(7, 2), Int2Rat(5)}]

\* PensionHelpers.lifestyle_summary(desired_income) is called by the page
\* but PensionHelpers, as found, defines no such attribute: the call raises
\* AttributeError.  With the attribute supplied it only renders text.  Both
\* outcomes are kept.
LifestyleSummaryOutcomes == {"AttributeError", "returns"}

\* arguments of a direct call of years_sustainable_fixed_income
\* (DepletionQuery: pot >= 0, real_return > -1)
DepletionQueries ==
    [pot : {Zero, Int2Rat(1000), Int2Rat(100000), Int2Rat(500000)},
     desired_income : {Int2Rat(10000), Int2Rat(11500), Int2Rat(15000),
                       Int2Rat(16500), Int2Rat(20000)},
     state_pension : {Zero, Int2Rat(11500)},
     real_return : {Rat(-1, 2), Rat(-1, 20), Zero, Rat(1, 40), Rat(7, 200),
                    Rat(1, 20)}]

-----------------------------------------------------------------------------
(* Initial states *)

\* PensionUserInterface.__init__
UISelfInit ==
    [default_current_age |-> DEFAULT_CURRENT_AGE,
     default_retire_age |-> DEFAULT_RETIRE_AGE,
     monthly_personal |-> Zero,
     monthly_employer |-> Zero,
     current_age |-> None,
     retirement_age |-> None]

Idle ==
    /\ years = 0
    /\ annual_contrib = Zero
    /\ y = 0
    /\ start_balance = Zero
    /\ rows = << >>
    /\ proj = None
    /\ projected_pot = None
    /\ income_call = None
    /\ projected_income = None
    /\ years_supported = None
    /\ raised = ""
    /\ output = None

\* the page has been loaded and its widgets hold values
InitPage ==
    /\ pc = "page"
    /\ ui \in {Some(w) : w \in UIWidgets}
    /\ ui_self = Some(UISelfInit)
    /\ calc = None

\* a caller has constructed a PensionCalc and is about to call run()
InitDirect ==
    /\ pc = "run"
    /\ ui = None
    /\ ui_self = None
    /\ calc \in {Some(c) : c \in DirectCalcs}

Init ==
    /\ this_year \in ClockYears
    /\ InitPage \/ InitDirect
    /\ Idle
    /\ dq = None
    /\ dres = None

-----------------------------------------------------------------------------
(* PensionUserInterface.user_interface and submit *)

\* self.monthly_personal / self.monthly_employer as the contribution widgets
\* set them
UIMonthly(c, percentage_field) ==
    IF c.contribution_toggle
    THEN LET pct == IF percentage_field = "personal"
                    THEN c.p_monthly_percentage ELSE c.e_monthly_percentage
         IN  RDiv(RMul(Int2Rat(c.annual_salary), Rat(pct, 100)), Int2Rat(12))
    ELSE IF percentage_field = "personal"
    THEN Int2Rat(c.p_monthly_contribution)
    ELSE Int2Rat(c.e_monthly_contribution)

\* years_in_retirement = life_expectancy - retirement_age
UIYearsInRetirement(w) == w.life_expectancy - w.retirement_age

\* real_return = slider / 100
UIRealReturn(w) == RDiv(w.real_return_pct, Int2Rat(100))

\* calculator = PensionCalc(...): nine positional arguments, so the ninth,
\* years_in_retirement, lands in the parameter withdrawal_rate and the
\* parameter years_in_retirement keeps its default
UICalculator(w, monthly_personal, monthly_employer) ==
    PensionCalcInit(w.current_age, w.retirement_age, Int2Rat(w.current_pot),
                    monthly_personal, monthly_employer, UIRealReturn(w),
                    Int2Rat(w.desired_income), Int2Rat(w.state_pension),
                    Some(Int2Rat(UIYearsInRetirement(w))),
                    Some(DefaultYearsInRetirement))

\* submit's guard: the page refuses the ages
SubmitRefuses(current_age, retirement_age) == current_age >= retirement_age

UserInterface ==
    /\ pc = "page"
    /\ LET w == Val(ui)
           mp == UIMonthly(w.contributions, "personal")
           me == UIMonthly(w.contributions, "employer")
           self1 == [Val(ui_self) EXCEPT !.monthly_personal = mp,
                                         !.monthly_employer = me]
       IN  \E ls \in LifestyleSummaryOutcomes :
             IF ls = "AttributeError"
             THEN /\ pc' = "raised"
                  /\ raised' = "AttributeError"
                  /\ ui_self' = Some(self1)
                  /\ UNCHANGED <<calc, output>>
             ELSE /\ calc' = Some(UICalculator(w, mp, me))
                  /\ raised' = raised
                  /\ IF SubmitRefuses(w.current_age, w.retirement_age)
                     THEN /\ ui_self' = Some([self1 EXCEPT
                                 !.current_age = Some(self1.default_current_age),
                                 !.retirement_age = Some(self1.default_retire_age)])
                          /\ output' = Some([kind |-> "warning"])
                          /\ pc' = "done"
                     ELSE /\ ui_self' = Some(self1)
                          /\ output' = output
                          /\ pc' = "run"
    /\ UNCHANGED <<this_year, ui, projVars, proj, projected_pot, income_call,
                   projected_income, years_supported, dq, dres>>

-----------------------------------------------------------------------------
(* PensionCalc.run, one action per statement; build_projection's loop runs  *)
(* one iteration per step                                                   *)

\* build_projection is entered: lines up to the loop
BuildProjectionCall ==
    /\ pc = "run"
    /\ LET c == Val(calc)
       IN  /\ years' = c.retire_age - c.current_age
           /\ annual_contrib' = AnnualContrib(c.monthly_personal, c.monthly_employer)
           /\ rows' = << >>
           /\ start_balance' = c.current_balance
           /\ y' = 0
    /\ pc' = "loop"
    /\ UNCHANGED <<this_year, ui, ui_self, calc, runVars, raised, dq, dres>>

\* one iteration of for y in range(years + 1)
LoopIteration ==
    /\ pc = "loop"
    /\ y < RangeLen(years)
    /\ LET c == Val(calc)
           step == ProjectionStep(y, start_balance, annual_contrib,
                                  c.annual_real_return)
       IN  /\ rows' = Append(rows, EmitRow(y, c.current_age + y, this_year + y,
                                           start_balance, step))
           /\ start_balance' = CarriedBalance(step)
    /\ y' = y + 1
    /\ UNCHANGED <<pc, this_year, ui, ui_self, calc, years, annual_contrib,
                   runVars, raised, dq, dres>>

\* the range is exhausted: return pd.DataFrame(rows)
BuildProjectionReturn ==
    /\ pc = "loop"
    /\ y >= RangeLen(years)
    /\ proj' = Some(rows)
    /\ pc' = "projected"
    /\ UNCHANGED <<this_year, ui, ui_self, calc, projVars, projected_pot,
                   income_call, projected_income, years_supported, raised,
                   output, dq, dres>>

\* projected_pot = float(proj.iloc[-1]["End Balance"]): IndexError on an
\* empty frame
ReadProjectedPot ==
    /\ pc = "projected"
    /\ LET df == Val(proj)
       IN  IF Len(df) = 0
           THEN /\ raised' = "IndexError"
                /\ pc' = "raised"
                /\ projected_pot' = projected_pot
           ELSE /\ projected_pot' = Some(Pence(df[Len(df)].End_Balance))
                /\ pc' = "pot"
                /\ raised' = raised
    /\ UNCHANGED <<this_year, ui, ui_self, calc, projVars, proj, income_call,
                   projected_income, years_supported, output, dq, dres>>

\* the call run makes: real_return is not passed and keeps its default
RunSustainableIncome(c, pot) ==
    SustainableIncome(pot, c.withdrawal_rate, c.state_pension,
                      c.years_in_retirement, DefaultRealReturn)

SustainableIncomeCall ==
    /\ pc = "pot"
    /\ LET res == RunSustainableIncome(Val(calc), Val(projected_pot))
       IN  /\ income_call' = res.lifespan
           /\ projected_income' = res.value
           /\ raised' = res.raised
           /\ pc' = IF res.raised = "" THEN "income" ELSE "raised"
    /\ UNCHANGED <<this_year, ui, ui_self, calc, projVars, proj, projected_pot,
                   years_supported, output, dq, dres>>

YearsSupportedCall ==
    /\ pc = "income"
    /\ LET c == Val(calc)
           res == YearsSustainableFixedIncome(Val(projected_pot), c.desired_income,
                                              c.state_pension, c.annual_real_return)
       IN  IF res.kind = "ValueError"
           THEN /\ raised' = "ValueError"
                /\ pc' = "raised"
                /\ years_supported' = years_supported
           ELSE /\ years_supported' = Some(res)
                /\ pc' = "years"
                /\ raised' = raised
    /\ UNCHANGED <<this_year, ui, ui_self, calc, projVars, proj, projected_pot,
                   income_call, projected_income, output, dq, dres>>

\* format_retirement_summary: the figures the text is built from
FormatRetirementSummary(c, yrs, pot, income, supported) ==
    [kind |-> "summary",
     years |-> yrs,
     projected_pot |-> pot,
     projected_income |-> income,
     sustain_line |-> IF supported.kind = "inf" THEN "indefinitely"
                      ELSE IF supported.sign <= 0 THEN "not_sustained"
                      ELSE "years"]

FormatSummary ==
    /\ pc = "years"
    /\ LET c == Val(calc)
       IN  output' = Some(FormatRetirementSummary(
                              c, c.retire_age - c.current_age, Val(projected_pot),
                              Val(projected_income), Val(years_supported)))
    /\ pc' = "done"
    /\ UNCHANGED <<this_year, ui, ui_self, calc, projVars, proj, projected_pot,
                   income_call, projected_income, years_supported, raised,
                   dq, dres>>

Next ==
    \/ UserInterface
    \/ BuildProjectionCall
    \/ LoopIteration
    \/ BuildProjectionReturn
    \/ ReadProjectedPot
    \/ SustainableIncomeCall
    \/ YearsSupportedCall
    \/ FormatSummary

Spec == Init /\ [][Next]_vars

-----------------------------------------------------------------------------
(* Direct calls of years_sustainable_fixed_income *)

InitYears ==
    /\ this_year \in ClockYears
    /\ pc = "idle"
    /\ ui = None
    /\ ui_self = None
    /\ calc = None
    /\ Idle
    /\ dq \in {Some(q) : q \in DepletionQueries}
    /\ dres = None

YearsSustainableCall ==
    /\ pc = "idle"
    /\ ~IsNone(dq)
    /\ IsNone(dres)
    /\ LET q == Val(dq)
       IN  dres' = Some(YearsSustainableFixedIncome(
                            q.pot, q.desired_income, q.state_pension, q.real_return))
    /\ UNCHANGED <<pc, this_year, ui, ui_self, calc, projVars, runVars, raised, dq>>

NextYears == YearsSustainableCall

SpecYears == InitYears /\ [][NextYears]_vars

-----------------------------------------------------------------------------
(* Properties of build_projection, read off the frame run() received *)

\* build_projection has returned a frame
ProjectionReturned == ~IsNone(proj)

\* each row's Start Balance is the End Balance of the row before it
Chained(df) ==
    \A i \in 2 .. Len(df) : df[i].Start_Balance = df[i - 1].End_Balance

\* End Balance - (Start Balance + Contributions + Growth) of a row, in pence
RowGap(row) ==
    row.End_Balance - (row.Start_Balance + row.Contributions + row.Growth)

\* current_balance + y * 12 * (monthly_personal + monthly_employer)
StraightLine(c, yy) ==
    RAdd(c.current_balance,
         RMul(Int2Rat(yy * 12), RAdd(c.monthly_personal, c.monthly_employer)))

\* C1 (as claimed): with retire_age < current_age build_projection fails with
\* InvalidRangeError and no projection, empty or not, is ever produced: the
\* request gets no further than the call, and ends only by that error.
C1_NegativeHorizonRejected ==
    (~IsNone(calc) /\ Val(calc).retire_age < Val(calc).current_age)
        => /\ IsNone(proj)
           /\ pc \in {"run", "loop", "raised"}
           /\ pc = "raised" => raised = "InvalidRangeError"

\* C4 (as claimed): for retire_age >= current_age, row 0's End Balance equals
\* current_balance and every later row's Start Balance equals the End Balance
\* of the row before it.
C4_ChainingExact ==
    (ProjectionReturned /\ Val(calc).retire_age >= Val(calc).current_age)
        => /\ Pence(Val(proj)[1].End_Balance) = Val(calc).current_balance
           /\ Chained(Val(proj))

\* C4 (amended): for retire_age >= current_age, row 0's End Balance equals
\* current_balance rounded to 2 decimals, and every later row's Start Balance
\* equals the End Balance of the row before it.
C4_ChainingRounded ==
    (ProjectionReturned /\ Val(calc).retire_age >= Val(calc).current_age)
        => /\ Val(proj)[1].End_Balance = Round2(Val(calc).current_balance)
           /\ Chained(Val(proj))

\* C4 witness: a projection of three rows or more with growth, from a balance
\* that is no whole number of pence
C4_Witness ==
    /\ ProjectionReturned
    /\ Len(Val(proj)) >= 3
    /\ Val(calc).current_balance = Rat(1, 250)
    /\ Val(proj)[3].Growth > 0

\* C5 (as claimed): in every emitted row y >= 1, End Balance = Start Balance +
\* Contributions + Growth on the emitted (rounded) values; in row 0,
\* Contributions = Growth = 0 and End Balance = Start Balance.
C5_RowArithmeticExact ==
    ProjectionReturned
        => \A i \in 1 .. Len(Val(proj)) :
             LET row == Val(proj)[i]
             IN  IF i = 1
                 THEN /\ row.Contributions = 0
                      /\ row.Growth = 0
                      /\ row.End_Balance = row.Start_Balance
                 ELSE RowGap(row) = 0

\* C5 (amended): in every emitted row y >= 1, End Balance differs from Start
\* Balance + Contributions + Growth by at most 0.02 (each of the four is
\* rounded on its own); in row 0, Contributions = Growth = 0 and End Balance =
\* Start Balance.
C5_RowArithmeticWithinRounding ==
    ProjectionReturned
        => \A i \in 1 .. Len(Val(proj)) :
             LET row == Val(proj)[i]
             IN  IF i = 1
                 THEN /\ row.Contributions = 0
                      /\ row.Growth = 0
                      /\ row.End_Balance = row.Start_Balance
                 ELSE RowGap(row) \in -2 .. 2

\* C5 witness: a returned projection with a row whose rounded parts do not
\* add up to its rounded End Balance
C5_Witness ==
    /\ ProjectionReturned
    /\ \E i \in 2 .. Len(Val(proj)) : RowGap(Val(proj)[i]) # 0

\* C6: with monthly_personal + monthly_employer >= 0 and annual_real_return >= 0
\* (and a starting balance >= 0, as ProjectionInput requires), the End Balance
\* of each row is at least the End Balance of the row before it.
C6_MonotonicGrowth ==
    (/\ ProjectionReturned
     /\ RLe(Zero, RAdd(Val(calc).monthly_personal, Val(calc).monthly_employer))
     /\ RLe(Zero, Val(calc).annual_real_return))
        => \A i \in 2 .. Len(Val(proj)) :
             Val(proj)[i].End_Balance >= Val(proj)[i - 1].End_Balance

\* C6 witness: a projection of three rows under a positive return that grows
\* by growth alone
C6_Witness ==
    /\ ProjectionReturned
    /\ Len(Val(proj)) >= 3
    /\ RLt(Zero, Val(calc).annual_real_return)
    /\ annual_contrib = Zero
    /\ Val(proj)[3].End_Balance > Val(proj)[2].End_Balance

\* C7 (as claimed): with annual_real_return = 0 every row y has Growth = 0 and
\* End Balance = current_balance + y * 12 * (monthly_personal + monthly_employer).
C7_StraightLineExact ==
    (ProjectionReturned /\ Val(calc).annual_real_return = Zero)
        => \A i \in 1 .. Len(Val(proj)) :
             /\ Val(proj)[i].Growth = 0
             /\ Pence(Val(proj)[i].End_Balance) = StraightLine(Val(calc), i - 1)

\* C7 (amended): with annual_real_return = 0 every row y has Growth = 0 and
\* End Balance = current_balance + y * 12 * (monthly_personal +
\* monthly_employer), rounded to 2 decimals.
C7_StraightLineRounded ==
    (ProjectionReturned /\ Val(calc).annual_real_return = Zero)
        => \A i \in 1 .. Len(Val(proj)) :
             /\ Val(proj)[i].Growth = 0
             /\ Val(proj)[i].End_Balance = Round2(StraightLine(Val(calc), i - 1))

\* C7 witness: a zero-return projection of three rows with both contributions
\* paid
C7_Witness ==
    /\ ProjectionReturned
    /\ Val(calc).annual_real_return = Zero
    /\ Len(Val(proj)) >= 3
    /\ RLt(Zero, Val(calc).monthly_personal)
    /\ RLt(Zero, Val(calc).monthly_employer)

\* C8: for retire_age >= current_age the result has exactly retire_age -
\* current_age + 1 rows, in order, row y carrying Year # = y and Age =
\* current_age + y.
C8_RowCountAndLabels ==
    (ProjectionReturned /\ Val(calc).retire_age >= Val(calc).current_age)
        => /\ Len(Val(proj)) = Val(calc).retire_age - Val(calc).current_age + 1
           /\ \A i \in 1 .. Len(Val(proj)) :
                /\ Val(proj)[i].Year_no = i - 1
                /\ Val(proj)[i].Age = Val(calc).current_age + i - 1

\* C8 witness: a projection over two years has returned, its last row at the
\* retirement age
C8_Witness ==
    /\ ProjectionReturned
    /\ Val(calc).retire_age - Val(calc).current_age = 2
    /\ Val(proj)[Len(Val(proj))].Age = Val(calc).retire_age

-----------------------------------------------------------------------------
(* Properties of sustainable_income as run() calls it *)

\* sustainable_income has been called and has returned or raised
IncomeCalled ==
    /\ ~IsNone(projected_pot)
    /\ pc \in {"income", "years", "done", "raised"}

\* C2 (as claimed): a call of sustainable_income that supplies both
\* withdrawal_rate and years_in_retirement, or neither, fails with
\* AmbiguousModeError and returns no income.
C2_ExactlyOneMode ==
    (/\ IncomeCalled
     /\ IsNone(Val(calc).withdrawal_rate) = IsNone(Val(calc).years_in_retirement))
        => /\ raised = "AmbiguousModeError"
           /\ IsNone(projected_income)

\* C10 (as claimed): when the page accepts the inputs, the income run() reports
\* is sustainable_income_with_lifespan(projected_pot, life_expectancy -
\* retirement_age, real_return, state_pension) on the values the user entered.
C10_IncomeUsesUserInputs ==
    (/\ ~IsNone(ui)
     /\ pc = "done"
     /\ ~SubmitRefuses(Val(ui).current_age, Val(ui).retirement_age))
        => Val(output).projected_income =
             SustainableIncomeWithLifespan(
                 Val(output).projected_pot, UIYearsInRetirement(Val(ui)),
                 UIRealReturn(Val(ui)), Int2Rat(Val(ui).state_pension))

-----------------------------------------------------------------------------
(* Properties of years_sustainable_fixed_income, called directly *)

PastPreCheck(q) ==
    /\ RLt(q.state_pension, q.desired_income)
    /\ RLt(Zero, q.pot)
    /\ q.real_return # Zero
    /\ RLt(RMul(q.pot, q.real_return), RSub(q.desired_income, q.state_pension))

====
